---------------------------- MODULE Spec2Model ----------------------------
(***************************************************************************)
(* A model of the gurtle leaderboard server (src/main.rs): the three       *)
(* request handlers get_scores, get_position and submit_score acting on    *)
(* the "scores" collection of the document store.                          *)
(*                                                                         *)
(* Strings are sequences of one-character strings, so that formatting,     *)
(* concatenation and the store's byte-wise string comparison are computed  *)
(* rather than assumed.                                                    *)
(*                                                                         *)
(* A handler shares nothing with the others but the store, and performs a  *)
(* single store operation, which it awaits.  Each handler is therefore two *)
(* steps: one from the arrival of the request to the sending of the        *)
(* operation (the clock is read here), and one for the store's answer and  *)
(* the response.  Time may pass between the two.  The store applies each   *)
(* operation atomically, and an operation that fails has no effect.        *)
(* Requests are taken one at a time.                                       *)
(***************************************************************************)
EXTENDS Integers, Sequences, FiniteSets

(***************************************************************************)
(* Text                                                                    *)
(***************************************************************************)

\* The byte value of the characters that occur in a rendered timestamp.
Ord(c) ==
    CASE c = " " -> 32 [] c = "+" -> 43 [] c = "-" -> 45 [] c = "." -> 46
      [] c = "0" -> 48 [] c = "1" -> 49 [] c = "2" -> 50 [] c = "3" -> 51
      [] c = "4" -> 52 [] c = "5" -> 53 [] c = "6" -> 54 [] c = "7" -> 55
      [] c = "8" -> 56 [] c = "9" -> 57 [] c = ":" -> 58
      [] c = "C" -> 67 [] c = "T" -> 84 [] c = "U" -> 85

\* The decimal digit d as a character.
Digit(d) == <<"0", "1", "2", "3", "4", "5", "6", "7", "8", "9">>[d + 1]

\* A natural number without leading zeros, as "{}" prints it.
RECURSIVE NatToStr(_)
NatToStr(n) == IF n < 10 THEN <<Digit(n)>>
               ELSE NatToStr(n \div 10) \o <<Digit(n % 10)>>

\* An i32 as "{}" prints it: a minus sign for negatives, then the digits.
IntToStr(i) == IF i < 0 THEN <<"-">> \o NatToStr(0 - i) ELSE NatToStr(i)

\* A natural number zero-padded to at least w digits, as "{:0w}" prints it.
RECURSIVE Pad(_, _)
Pad(n, w) == IF w <= 1 THEN NatToStr(n)
             ELSE IF Len(NatToStr(n)) >= w THEN NatToStr(n)
             ELSE <<"0">> \o Pad(n, w - 1)

\* Byte-wise comparison of two strings, as the store orders string values:
\* the first differing byte decides, and a proper prefix sorts first.
RECURSIVE StrLess(_, _)
StrLess(a, b) ==
    IF b = <<>> THEN FALSE
    ELSE IF a = <<>> THEN TRUE
    ELSE IF Head(a) = Head(b) THEN StrLess(Tail(a), Tail(b))
    ELSE Ord(Head(a)) < Ord(Head(b))

StrGte(a, b) == ~StrLess(a, b)

(***************************************************************************)
(* Time: chrono's DateTime<Utc> and its Display form                       *)
(***************************************************************************)

\* An instant is [secs |-> seconds since 1970-01-01 00:00:00 UTC,
\*                nanos |-> nanoseconds within the second].
SecsPerDay == 86400
SecsPerWeek == 604800

\* Duration::weeks(n)
Weeks(n) == n * SecsPerWeek

\* DateTime - Duration, for a whole number of seconds
Minus(t, d) == [secs |-> t.secs - d, nanos |-> t.nanos]

\* The chronological order of instants.
Earlier(a, b) == a.secs < b.secs \/ (a.secs = b.secs /\ a.nanos < b.nanos)

\* The civil date of the day that is `days` days after 1970-01-01, in the
\* proleptic Gregorian calendar (days >= 0): the days are counted from
\* 0000-03-01 in 400-year eras of 146097 days, and years that start in March.
CivilFromDays(days) ==
    LET z == days + 719468
        era == z \div 146097
        doe == z - era * 146097
        yoe == (doe - doe \div 1460 + doe \div 36524 - doe \div 146096) \div 365
        doy == doe - (365 * yoe + yoe \div 4 - yoe \div 100)
        mp == (5 * doy + 2) \div 153
        m == IF mp < 10 THEN mp + 3 ELSE mp - 9
    IN  [year |-> yoe + era * 400 + (IF m <= 2 THEN 1 ELSE 0),
         month |-> m,
         day |-> doy - (153 * mp + 2) \div 5 + 1]

\* NaiveDate's Display: YYYY-MM-DD, the year zero-padded to four digits
\* (signed and five digits wide beyond 9999).
DateToStr(days) ==
    LET d == CivilFromDays(days)
        yy == IF d.year <= 9999 THEN Pad(d.year, 4)
              ELSE <<"+">> \o Pad(d.year, 5)
    IN  yy \o <<"-">> \o Pad(d.month, 2) \o <<"-">> \o Pad(d.day, 2)

\* TimeToStr to the second: HH:MM:SS and no fraction.
TimeToStrSeconds(sod, nanos) ==
    Pad(sod \div 3600, 2) \o <<":">> \o Pad((sod \div 60) % 60, 2)
        \o <<":">> \o Pad(sod % 60, 2)

\* NaiveTime's Display: HH:MM:SS, then the fraction with 0, 3, 6 or 9
\* digits, whichever is the shortest that loses nothing.
TimeToStr(sod, nanos) ==
    LET hms == Pad(sod \div 3600, 2) \o <<":">> \o Pad((sod \div 60) % 60, 2)
               \o <<":">> \o Pad(sod % 60, 2)
        frac == IF nanos = 0 THEN <<>>
                ELSE IF nanos % 1000000 = 0
                     THEN <<".">> \o Pad(nanos \div 1000000, 3)
                ELSE IF nanos % 1000 = 0
                     THEN <<".">> \o Pad(nanos \div 1000, 6)
                ELSE <<".">> \o Pad(nanos, 9)
    IN  hms \o frac

\* DateTime<Utc>::to_string(): date, space, time, space, "UTC".
ToString(t) ==
    DateToStr(t.secs \div SecsPerDay) \o <<" ">>
        \o TimeToStr(t.secs % SecsPerDay, t.nanos) \o <<" ", "U", "T", "C">>

(***************************************************************************)
(* Inputs                                                                  *)
(***************************************************************************)

\* 2024-02-25 23:59:59 UTC
Epoch == [secs |-> 19778 * SecsPerDay + 86399, nanos |-> 0]

After(t, s, n) == [secs |-> t.secs + s, nanos |-> t.nanos + n]

\* The readings the wall clock takes: the epoch, one and four weeks after
\* it, and shortly after each of those.
Instants ==
    { Epoch,
      After(Epoch, Weeks(1), 0),
      After(Epoch, Weeks(1), 500000),
      After(Epoch, Weeks(4), 0),
      After(Epoch, Weeks(4), 1) }

Ann == <<"A", "n", "n">>
Bob == <<"B", "o", "b">>
Scores == {-5, 42}
\* The (name, score) pairs submitted.
Submissions == {<<Ann, -5>>, <<Ann, 42>>}
\* The path segment {duration}: the three the client uses and one other.
Durations == {"weekly", "monthly", "alltime", "daily"}

\* The hash field of a submission that is no digest at all.
Bogus == <<"b", "o", "g", "u", "s">>

\* The outcome the store may report for a failed operation.
StoreErrors == {"Kind: I/O error: connection reset"}

\* How many valid submissions are made in one behaviour.
MaxSubmits == 2

(***************************************************************************)
(* The score validator (submit_score, lines 87-88)                         *)
(***************************************************************************)

TheTurtle == <<"T", "h", "e", "T", "u", "r", "t", "l", "e">>

\* Preimage with the secret token left out.
PreimageNoSecret(name, score) == name \o IntToStr(score)

\* format!("{}TheTurtle{}", name, score)
Preimage(name, score) == name \o TheTurtle \o IntToStr(score)

\* sha256::digest, idealised as a collision-free function of its input: the
\* digest of a text is that text under a tag.
Digest(text) == <<"sha256">> \o text

\* The hash fields tried: the digest of every pair submitted, the digest of
\* another name's pair, a digest made without the secret token, and a
\* string that is no digest.
Hashes ==
    {Digest(Preimage(sub[1], sub[2])) : sub \in Submissions}
        \cup {Digest(Preimage(Bob, 42)), Digest(Ann \o IntToStr(42)), Bogus}

(***************************************************************************)
(* The store: the "scores" collection of Entry documents                   *)
(***************************************************************************)

\* struct Entry
Entry(name, score, datetime) ==
    [name |-> name, score |-> score, datetime |-> datetime]

NoEntry == Entry(<<>>, 0, <<>>)

\* A query document: which of the two $gte clauses it holds, and their
\* operands.
Filter(hasDatetime, datetimeGte, hasScore, scoreGte) ==
    [hasDatetime |-> hasDatetime, datetimeGte |-> datetimeGte,
     hasScore |-> hasScore, scoreGte |-> scoreGte]

\* doc! {}
EmptyFilter == Filter(FALSE, <<>>, FALSE, 0)

\* Whether a document satisfies a query document: every clause present
\* must hold; strings compare byte-wise, integers numerically.
Matches(e, f) ==
    /\ f.hasDatetime => StrGte(e.datetime, f.datetimeGte)
    /\ f.hasScore => e.score >= f.scoreGte

Matching(docs, f) == {i \in DOMAIN docs : Matches(docs[i], f)}

\* .limit(10)
Limit == 10

\* SortsBefore for a sort on {"score": -1}.
SortsBeforeDescending(docs, i, j, tie) ==
    \/ docs[i].score > docs[j].score
    \/ /\ docs[i].score = docs[j].score
       /\ IF tie = "natural" THEN i <= j ELSE i >= j

\* The order a sort on {"score": 1} puts two documents in.  Documents with
\* equal scores come in an order the store does not promise: either their
\* natural order or its reverse, as tie says.
SortsBefore(docs, i, j, tie) ==
    \/ docs[i].score < docs[j].score
    \/ /\ docs[i].score = docs[j].score
       /\ IF tie = "natural" THEN i <= j ELSE i >= j

RECURSIVE Sorted(_, _, _)
Sorted(docs, S, tie) ==
    IF S = {} THEN <<>>
    ELSE LET m == CHOOSE i \in S : \A j \in S : SortsBefore(docs, i, j, tie)
         IN  <<docs[m]>> \o Sorted(docs, S \ {m}, tie)

Take(seq, n) == SubSeq(seq, 1, IF Len(seq) < n THEN Len(seq) ELSE n)

\* Find without the limit.
FindUnlimited(docs, f, tie) == Sorted(docs, Matching(docs, f), tie)

\* collection.find(filter, sort by score ascending, limit 10), drained
Find(docs, f, tie) == Take(Sorted(docs, Matching(docs, f), tie), Limit)

\* collection.count_documents(filter)
CountDocuments(docs, f) == Cardinality(Matching(docs, f))

\* InsertOne that replaces the entry of the same name, if there is one.
InsertOneUpsert(docs, data) ==
    IF \E i \in DOMAIN docs : docs[i].name = data.name
    THEN [i \in DOMAIN docs |->
             IF docs[i].name = data.name THEN data ELSE docs[i]]
    ELSE Append(docs, data)

\* InsertOne that keeps one entry per name and score.
InsertOneDedup(docs, data) ==
    IF \E i \in DOMAIN docs :
           docs[i].name = data.name /\ docs[i].score = data.score
    THEN docs
    ELSE Append(docs, data)

\* collection.insert_one(data), when it succeeds
InsertOne(docs, data) == Append(docs, data)

(***************************************************************************)
(* State                                                                   *)
(***************************************************************************)

VARIABLES
    store,   \* the collection: the sequence of Entry documents inserted
    stamp,   \* history: stamp[i] is the instant the handler that inserted
             \* store[i] read from the clock
    clock,   \* Utc::now()
    task,    \* per worker, the request it handles and where it stands
    added    \* history: how many responses "Score added" were sent

vars == <<store, stamp, clock, task, added>>

\* No instant: the value of an instant-valued field that is not in use.
Never == [secs |-> 0, nanos |-> 0]

\* A worker that has handled nothing yet.  The fields of a task:
\*   phase     "idle", "awaiting" (the store operation is sent and not yet
\*             answered) or "answered" (the handler returned)
\*   op        the handler
\*   duration, score         the path of a query
\*   name, score, hash       the body of a submission
\*   filter, data            the document built for the store
\*   now                     the handler's reading of the clock, kept
\*                           while a document holds a rendering made of it
\*   inserts                 history: how many times the handler called
\*                           insert_one
\*   status, scores, position, text   the response: status 0 means that
\*                           the handler panicked and sent none
IdleTask ==
    [phase |-> "idle", op |-> "none", duration |-> "", score |-> 0,
     name |-> <<>>, hash |-> <<>>, filter |-> EmptyFilter, data |-> NoEntry,
     now |-> Never, inserts |-> 0,
     status |-> 0, scores |-> <<>>, position |-> 0, text |-> ""]

\* A worker is free to take a request unless it awaits the store.
Free(w) == task[w].phase # "awaiting"

Awaiting(w, op) == task[w].phase = "awaiting" /\ task[w].op = op

Init ==
    /\ store = <<>>
    /\ stamp = <<>>
    /\ clock = Epoch
    /\ task = [w \in {"w1"} |-> IdleTask]
    /\ added = 0

\* Time passes.
Tick(t) ==
    /\ Earlier(clock, t)
    /\ clock' = t
    /\ UNCHANGED <<store, stamp, task, added>>

(***************************************************************************)
(* The ranking engine (get_scores lines 37-49, get_position lines 66-78)   *)
(***************************************************************************)

\* Beginning with a month of thirty days.
BeginningThirtyDays(duration, now) ==
    CASE duration = "weekly" -> Minus(now, Weeks(1))
      [] duration = "monthly" -> Minus(now, 30 * SecsPerDay)
      [] OTHER -> now

\* let beginning = match duration.as_str() { ... }
Beginning(duration, now) ==
    CASE duration = "weekly" -> Minus(now, Weeks(1))
      [] duration = "monthly" -> Minus(now, Weeks(4))
      [] OTHER -> now

\* get_scores: let filter = match duration.as_str() { ... }
ScoresFilter(duration, beginning) ==
    IF duration = "alltime" THEN EmptyFilter
    ELSE Filter(TRUE, ToString(beginning), FALSE, 0)

\* get_position: let filter = match duration.as_str() { ... }
PositionFilter(duration, beginning, score) ==
    IF duration = "alltime" THEN Filter(FALSE, <<>>, TRUE, score)
    ELSE Filter(TRUE, ToString(beginning), TRUE, score)

(***************************************************************************)
(* GET /scores/{duration}                                                  *)
(***************************************************************************)

\* Lines 36-55: read the clock, build the filter and the options, send the
\* find.
GetScoresStart(w, duration) ==
    /\ Free(w)
    /\ LET now == clock
           beginning == Beginning(duration, now)
           filter == ScoresFilter(duration, beginning)
       IN  task' = [task EXCEPT ![w] =
                [IdleTask EXCEPT !.phase = "awaiting",
                                 !.op = "get_scores",
                                 !.duration = duration,
                                 !.filter = filter,
                                 !.now = IF filter.hasDatetime
                                         THEN now ELSE Never]]
    /\ UNCHANGED <<store, stamp, clock, added>>

\* Lines 56-60: the find is answered, the cursor is drained into scores and
\* sent as JSON with 200 OK.
GetScoresDone(w, tie) ==
    /\ Awaiting(w, "get_scores")
    /\ task' = [task EXCEPT ![w].phase = "answered",
                            ![w].status = 200,
                            ![w].scores = Find(store, task[w].filter, tie)]
    /\ UNCHANGED <<store, stamp, clock, added>>

(***************************************************************************)
(* GET /position/{duration}/{score}                                        *)
(***************************************************************************)

\* Lines 65-79: read the clock, build the filter, send the count.
GetPositionStart(w, duration, score) ==
    /\ Free(w)
    /\ LET now == clock
           beginning == Beginning(duration, now)
           filter == PositionFilter(duration, beginning, score)
       IN  task' = [task EXCEPT ![w] =
                [IdleTask EXCEPT !.phase = "awaiting",
                                 !.op = "get_position",
                                 !.duration = duration,
                                 !.score = score,
                                 !.filter = filter,
                                 !.now = IF filter.hasDatetime
                                         THEN now ELSE Never]]
    /\ UNCHANGED <<store, stamp, clock, added>>

\* Lines 79-80: the count is answered; position is the count plus one.
GetPositionDone(w) ==
    /\ Awaiting(w, "get_position")
    /\ LET position == CountDocuments(store, task[w].filter) + 1
       IN  task' = [task EXCEPT ![w].phase = "answered",
                                ![w].status = 200,
                                ![w].position = position]
    /\ UNCHANGED <<store, stamp, clock, added>>

\* Lines 56, 57 and 79: the store reports an error for a find or a count,
\* and the handler's unwrap panics.
ReadFail(w) ==
    /\ Awaiting(w, "get_scores") \/ Awaiting(w, "get_position")
    /\ task' = [task EXCEPT ![w].phase = "answered",
                            ![w].text = "panicked"]
    /\ UNCHANGED <<store, stamp, clock, added>>

(***************************************************************************)
(* POST /submitscore                                                       *)
(***************************************************************************)

\* Lines 85-90: the hash differs from the digest computed, and the handler
\* returns 403 at once.
SubmitScoreReject(w, name, score, hash) ==
    /\ Free(w)
    /\ LET value == Digest(Preimage(name, score))
       IN  /\ value # hash
           /\ task' = [task EXCEPT ![w] =
                   [IdleTask EXCEPT !.phase = "answered",
                                    !.op = "submit_score",
                                    !.name = name,
                                    !.score = score,
                                    !.hash = hash,
                                    !.status = 403,
                                    !.text = "Score rejected: Invalid hash"]]
    /\ UNCHANGED <<store, stamp, clock, added>>

\* The valid submissions in flight.
Inserting == {w \in DOMAIN task : Awaiting(w, "submit_score")}

\* Lines 85-96: the hash is the digest computed; the Entry is built with
\* the clock's reading as its datetime, and the insert is sent.
SubmitScoreStart(w, name, score, hash) ==
    /\ Free(w)
    /\ added + Cardinality(Inserting) < MaxSubmits
    /\ LET now == clock
           value == Digest(Preimage(name, score))
       IN  /\ value = hash
           /\ task' = [task EXCEPT ![w] =
                   [IdleTask EXCEPT !.phase = "awaiting",
                                    !.op = "submit_score",
                                    !.name = name,
                                    !.score = score,
                                    !.hash = hash,
                                    !.now = now,
                                    !.inserts = 1,
                                    !.data = Entry(name, score,
                                                   ToString(now))]]
    /\ UNCHANGED <<store, stamp, clock, added>>

\* Lines 96-98: the insert succeeded.
SubmitScoreDone(w) ==
    /\ Awaiting(w, "submit_score")
    /\ store' = InsertOne(store, task[w].data)
    /\ stamp' = Append(stamp, task[w].now)
    /\ added' = added + 1
    /\ task' = [task EXCEPT ![w].phase = "answered",
                            ![w].status = 200,
                            ![w].text = "Score added"]
    /\ UNCHANGED clock

\* SubmitScoreFail that sends the insert again.
SubmitScoreFailRetry(w, err) ==
    /\ Awaiting(w, "submit_score")
    /\ task' = [task EXCEPT ![w].inserts = @ + 1]
    /\ UNCHANGED <<store, stamp, clock, added>>

\* Lines 96-99: the insert failed, and nothing was written; the error's
\* description is the body of a 500.
SubmitScoreFail(w, err) ==
    /\ Awaiting(w, "submit_score")
    /\ task' = [task EXCEPT ![w].phase = "answered",
                            ![w].status = 500,
                            ![w].text = err]
    /\ UNCHANGED <<store, stamp, clock, added>>

(***************************************************************************)
(* Specification                                                           *)
(***************************************************************************)

Next ==
    \/ \E t \in Instants : Tick(t)
    \/ \E w \in DOMAIN task, d \in Durations : GetScoresStart(w, d)
    \/ \E w \in DOMAIN task, tie \in {"natural", "reverse"} :
           GetScoresDone(w, tie)
    \/ \E w \in DOMAIN task, d \in Durations, sc \in Scores :
           GetPositionStart(w, d, sc)
    \/ \E w \in DOMAIN task : GetPositionDone(w)
    \/ \E w \in DOMAIN task : ReadFail(w)
    \/ \E w \in DOMAIN task, sub \in Submissions, h \in Hashes :
           SubmitScoreReject(w, sub[1], sub[2], h)
    \/ \E w \in DOMAIN task, sub \in Submissions, h \in Hashes :
           SubmitScoreStart(w, sub[1], sub[2], h)
    \/ \E w \in DOMAIN task : SubmitScoreDone(w)
    \/ \E w \in DOMAIN task, err \in StoreErrors : SubmitScoreFail(w, err)

Spec == Init /\ [][Next]_vars

\* The same server over a collection that already holds a full page of
\* entries: Bob's, with scores 1, 2, ..., accepted a millisecond before the
\* epoch.
Before == [secs |-> Epoch.secs - 1, nanos |-> 999000000]

Prefilled(n) == [i \in 1..n |-> Entry(Bob, i, ToString(Before))]

InitFull ==
    /\ store = Prefilled(Limit)
    /\ stamp = [i \in 1..Limit |-> Before]
    /\ clock = Epoch
    /\ task = [w \in {"w1"} |-> IdleTask]
    /\ added = 0

SpecFull == InitFull /\ [][Next]_vars

(***************************************************************************)
(* Properties                                                              *)
(***************************************************************************)

Min(a, b) == IF a < b THEN a ELSE b

\* Instant a is instant b or later.
NotEarlier(a, b) == ~Earlier(a, b)

\* Worker w's handler op has returned (and w took nothing since).
Answered(w, op) == task[w].phase = "answered" /\ task[w].op = op

\* The step in which worker w's handler op returns.
Returns(w, op) == task'[w] # task[w] /\ Answered(w, op)'

\* The instant n days before t.
DaysBefore(t, n) == [secs |-> t.secs - n * SecsPerDay, nanos |-> t.nanos]

\* The lower bound of a duration's window for a request that read the clock
\* at now: seven days back, twenty-eight days back, and now itself for any
\* other duration that is given a bound.
LowerBound(duration, now) ==
    CASE duration = "weekly" -> DaysBefore(now, 7)
      [] duration = "monthly" -> DaysBefore(now, 28)
      [] OTHER -> now

\* The entries within the duration's window, by the instants they were
\* accepted at: all of them for "alltime".
InWindow(duration, now) ==
    {i \in DOMAIN store :
        duration = "alltime" \/ NotEarlier(stamp[i], LowerBound(duration, now))}

\* The decimal rendering of the scores submitted, written out.
Decimal(score) ==
    CASE score = -5 -> <<"-", "5">>
      [] score = 42 -> <<"4", "2">>

\* Hash(name + "TheTurtle" + decimal rendering of score)
ExpectedHash(name, score) ==
    Digest(name \o <<"T", "h", "e", "T", "u", "r", "t", "l", "e">>
                \o Decimal(score))

\* C1: submit_score answers 403 exactly when the hash submitted differs from
\* the digest of name, "TheTurtle" and the score in decimal, and the step
\* that rejects a submission leaves the store as it was.
C1_RejectsExactlyBadHashes ==
    [][\A w \in DOMAIN task :
          /\ task'[w].op = "submit_score" =>
                 ((task'[w].phase = "answered" /\ task'[w].status = 403)
                     <=> task'[w].hash # ExpectedHash(task'[w].name,
                                                      task'[w].score))
          /\ (Returns(w, "submit_score") /\ task'[w].status = 403) =>
                 (store' = store /\ stamp' = stamp)]_vars

\* A submission was rejected while the store held an entry.
C1_Witness ==
    \E w \in DOMAIN task :
        /\ Answered(w, "submit_score")
        /\ task[w].status = 403
        /\ task[w].hash = Digest(task[w].name \o IntToStr(task[w].score))
        /\ Len(store) > 0

Listed(w, i) ==
    \E k \in DOMAIN task[w].scores :
        /\ task[w].scores[k].name = store[i].name
        /\ task[w].scores[k].score = store[i].score

\* C3: whenever get_scores answers, it answers 200 OK with at most 10
\* entries in non-decreasing order of score, and with none when no entry is
\* within the duration's window.
C3_AtMostTenAscending ==
    [][\A w \in DOMAIN task :
          (Returns(w, "get_scores") /\ task'[w].text # "panicked") =>
              /\ task'[w].status = 200
              /\ Len(task'[w].scores) <= 10
              /\ \A k \in 1..(Len(task'[w].scores) - 1) :
                     task'[w].scores[k].score <= task'[w].scores[k + 1].score
              /\ InWindow(task'[w].duration, task'[w].now) = {} =>
                     task'[w].scores = <<>>]_vars

\* get_scores returned a full page, in order, of a store that holds more;
\* and get_scores returned nothing of a store that holds entries.
C3_Witness ==
    \E w \in DOMAIN task :
        /\ Answered(w, "get_scores")
        /\ task[w].status = 200
        /\ \/ /\ Len(task[w].scores) = 10
              /\ Len(store) > 10
              /\ task[w].scores[1].score < task[w].scores[10].score
           \/ /\ task[w].duration = "weekly"
              /\ task[w].scores = <<>>
              /\ Len(store) > 10

\* C4: for a duration other than "weekly" and "monthly", get_scores draws
\* its page from the whole collection: it returns the first 10 of all the
\* entries stored, or all of them when there are fewer.
C4_OtherDurationsMatchAll ==
    [][\A w \in DOMAIN task :
          (/\ Returns(w, "get_scores")
           /\ task'[w].status = 200
           /\ task'[w].duration \notin {"weekly", "monthly"}) =>
              Len(task'[w].scores) = Min(10, Len(store))]_vars

\* C5: get_position returns one more than the number of entries whose score
\* is at least the score asked about and that lie within the duration's
\* window.
C5_PositionCountsScoresAtLeast ==
    [][\A w \in DOMAIN task :
          (Returns(w, "get_position") /\ task'[w].status = 200) =>
              task'[w].position = 1 + Cardinality(
                  {i \in InWindow(task'[w].duration, task'[w].now) :
                      store[i].score >= task'[w].score})]_vars

\* A weekly position that counted one entry and left out another, and an
\* all-time position of 1 over a store that holds entries.
C5_Witness ==
    \E w \in DOMAIN task :
        /\ Answered(w, "get_position")
        /\ task[w].status = 200
        /\ \/ /\ task[w].duration = "weekly"
              /\ task[w].position = 2
              /\ Cardinality({i \in DOMAIN store :
                                  store[i].score >= task[w].score}) = 2
           \/ /\ task[w].duration = "alltime"
              /\ task[w].position = 1
              /\ Len(store) > 0

\* C6: get_position returns one more than the number of entries within the
\* window that rank strictly better, that is, whose score is lower than the
\* score asked about.
C6_PositionCountsBetterScores ==
    [][\A w \in DOMAIN task :
          (Returns(w, "get_position") /\ task'[w].status = 200) =>
              task'[w].position = 1 + Cardinality(
                  {i \in InWindow(task'[w].duration, task'[w].now) :
                      store[i].score < task'[w].score})]_vars

\* C7: every step leaves the entries stored where they are and as they are,
\* and a step of get_scores or get_position leaves the store as it is.
C7_AppendOnly ==
    [][/\ Len(store') >= Len(store)
       /\ SubSeq(store', 1, Len(store)) = store
       /\ \A w \in DOMAIN task :
              (/\ task'[w] # task[w]
               /\ \/ task[w].phase = "awaiting"
                     /\ task[w].op \in {"get_scores", "get_position"}
                  \/ task'[w].op \in {"get_scores", "get_position"}) =>
                  store' = store]_vars

\* The store holds two entries of one name, and a query has been answered.
C7_Witness ==
    /\ Len(store) = 2
    /\ store[1].name = store[2].name
    /\ store[1].score # store[2].score
    /\ \E w \in DOMAIN task :
           Answered(w, "get_scores") /\ Len(task[w].scores) = 2

\* The entries inserted by the submissions of this behaviour.
Submits == {i \in DOMAIN store : i > Len(store) - added}

\* C8, as claimed: once a submission is answered "Score added", every later
\* response of get_scores for "alltime" lists its name and score.
C8_EveryLaterListingIncludes ==
    \A w \in DOMAIN task :
        (/\ Answered(w, "get_scores")
         /\ task[w].status = 200
         /\ task[w].duration = "alltime") =>
            \A i \in Submits : Listed(w, i)

\* C8, amended: it does so as long as the store holds no more than 10
\* entries whose score is at most the score submitted.
C8_LaterListingIncludesTopTen ==
    \A w \in DOMAIN task :
        (/\ Answered(w, "get_scores")
         /\ task[w].status = 200
         /\ task[w].duration = "alltime") =>
            \A i \in DOMAIN store :
                Cardinality({j \in DOMAIN store :
                                 store[j].score <= store[i].score}) <= 10
                    => Listed(w, i)

\* A submission into a store that holds a full page was answered, and the
\* next all-time listing includes it and leaves out another entry.
C8_Witness ==
    \E w \in DOMAIN task :
        /\ Answered(w, "get_scores")
        /\ task[w].status = 200
        /\ task[w].duration = "alltime"
        /\ Len(store) = 11
        /\ added = 1
        /\ Listed(w, 11)
        /\ ~Listed(w, 10)

\* C9: for "weekly" and "monthly", get_scores returns entries accepted no
\* earlier than 7 and 28 days before the request read the clock, and as many
\* of them as there are (up to 10); and get_position counts exactly those
\* among them whose score is at least the score asked about.
C9_WindowsOfSevenAndTwentyEightDays ==
    [][\A w \in DOMAIN task :
          LET t == task'[w]
              days == IF t.duration = "weekly" THEN 7 ELSE 28
              eligible == {i \in DOMAIN store :
                              NotEarlier(stamp[i], DaysBefore(t.now, days))}
          IN  (t.duration \in {"weekly", "monthly"} /\ t.status = 200) =>
                  /\ Returns(w, "get_scores") =>
                         /\ \A k \in DOMAIN t.scores :
                                \E i \in eligible : store[i] = t.scores[k]
                         /\ Len(t.scores) = Min(10, Cardinality(eligible))
                  /\ Returns(w, "get_position") =>
                         t.position = 1 + Cardinality(
                             {i \in eligible : store[i].score >= t.score})
      ]_vars

\* A weekly listing holds the entry accepted within the seven days before
\* the request and not the one accepted earlier than that.
C9_Witness ==
    \E w \in DOMAIN task :
        /\ Answered(w, "get_scores")
        /\ task[w].status = 200
        /\ task[w].duration = "weekly"
        /\ Len(store) = 2
        /\ Earlier(stamp[1], DaysBefore(task[w].now, 7))
        /\ NotEarlier(stamp[2], DaysBefore(task[w].now, 7))
        /\ task[w].scores = <<store[2]>>

\* C10: submit_score calls insert_one at most once for a request; when the
\* insert fails it answers 500 with the store's description of the error and
\* the store is as it was; and it answers 200 "Score added" only in a step
\* that adds the entry.
C10_FailedInsertAnswers500 ==
    [][\A w \in DOMAIN task :
          /\ task'[w].inserts <= 1
          /\ Returns(w, "submit_score") =>
                 /\ task'[w].status \in {200, 403, 500}
                 /\ task'[w].status = 500 =>
                        /\ task[w].hash = ExpectedHash(task[w].name,
                                                       task[w].score)
                        /\ task'[w].text \in StoreErrors
                        /\ task'[w].inserts = 1
                        /\ store' = store
                 /\ task'[w].status = 200 =>
                        /\ task'[w].text = "Score added"
                        /\ task'[w].inserts = 1
                        /\ store' = Append(store, task[w].data)
      ]_vars

\* An insert failed after another had succeeded.
C10_Witness ==
    \E w \in DOMAIN task :
        /\ Answered(w, "submit_score")
        /\ task[w].status = 500
        /\ Len(store) = 1

=============================================================================
